---- MODULE Spec2Model ----
(***************************************************************************)
(* A model of qjson (src/src/qjson.hpp): the character-level parser of     *)
(* class Json, the tree of JsonData nodes it builds, and the accessors of  *)
(* ov_shared_ptr / Json that read and delete from the finished tree.       *)
(*                                                                         *)
(* Characters are one-character strings; every std::string of the program  *)
(* (text_, the keys, string_data_) is a sequence of characters.            *)
(* A pointer is a sequence of length at most one: <<>> is nullptr and      *)
(* <<x>> points at x.  JsonData objects live in `heap` and are named by    *)
(* their index in it, so two handles are equal iff they hold the same      *)
(* index (ov_shared_ptr::operator==).                                      *)
(***************************************************************************)
EXTENDS Integers, Sequences, FiniteSets, TLC

VARIABLES
    \* class Json, lines 228-248
    last_bracket_, last_symbol_, brackets_, keys_, working_on_,
    currently_working_on_, text_, quotes_open, processing_key_,
    processing_bool_, processing_number_, json_data_,
    \* every JsonData made by std::make_shared, by index
    heap,
    \* file_: the characters known to follow but not parsed yet, whether the
    \* file is known to end after them, and the stream's state (good/failed)
    file, eof, good,
    \* position of the constructor: the loop of parseFile and of parseBuffer
    pc, i,
    \* the exception that left the constructor, "" when none
    error,
    \* the content still to be written to the file (words left)
    budget,
    \* the document the file was rendered from (SpecDocs), else NoDoc
    doc,
    \* observations of the input itself, independent of the parser's state
    seen,
    \* the caller's handle, the last accessor call and what it returned
    h, call

parser == <<last_bracket_, last_symbol_, brackets_, keys_, working_on_,
            currently_working_on_, text_, quotes_open, processing_key_,
            processing_bool_, processing_number_>>
stream == <<file, eof, good, budget>>
vars == <<parser, json_data_, heap, stream, pc, i, error, doc, seen, h, call>>

-----------------------------------------------------------------------------
(* Bounds of the model *)

\* the chunk length; the program reads 4096 characters at a time (line 226),
\* the model reads this many so that tokens straddle chunk boundaries
buffer_size_ == 2
\* the number of words the environment writes to the file in Spec
MaxWords == 4

-----------------------------------------------------------------------------
(* Pointers and stacks *)

nullptr == <<>>
Ptr(x) == <<x>>
Deref(p) == p[1]

Top(s) == s[Len(s)]
Pop(s) == SubSeq(s, 1, Len(s) - 1)
Push(s, x) == Append(s, x)

NUL == "NUL"

\* F of the value of v, with v evaluated once
Let(v, F(_)) == CHOOSE r \in {F(x) : x \in {v}} : TRUE

-----------------------------------------------------------------------------
(* JsonType and JsonData *)

JsonType == {"STRING", "OBJECT", "ARRAY", "UNINIT"}

\* a default-constructed JsonData: lines 157-158 and 184-186
JsonData == [type_ |-> "UNINIT", string_data_ |-> <<>>,
             object_data_ |-> nullptr, array_data_ |-> nullptr]

\* ov_shared_ptr(JsonType type): make_shared<T>() with type_ set
NewNode(type) == [JsonData EXCEPT !.type_ = type]

\* std::unordered_map::insert: an existing mapping is kept
MapInsert(m, key, value) == m @@ (key :> value)

-----------------------------------------------------------------------------
(* The character predicates of class Json *)

Digits == {"0", "1", "2", "3", "4", "5", "6", "7", "8", "9"}
Whitespace == {" ", "\n", "\t", "\r"}

isClosingBracket(c) == c = "}" \/ c = "]"
isOpeningBracket(c) == c = "{" \/ c = "["

\* a slip: the two characters compared, not their families
sameBracketType_SameChar(c1, c2) == c1 = c2

sameBracketType(c1, c2) ==
    LET c1_square == (c1 = "[") \/ (c1 = "]")
        c2_square == (c2 = "[") \/ (c2 = "]")
    IN  c1_square = c2_square

isNumberPart(c) == c \in Digits \/ c = "." \/ c = "-" \/ c = "e"

isBoolPart(c) == c \in {"t", "r", "u", "e", "f", "a", "l", "s"}

\* a slip: only the first three characters compared
isValidBool_Prefix(boolean) ==
    Len(boolean) >= 3 /\ SubSeq(boolean, 1, 3) \in {<<"t", "r", "u">>, <<"f", "a", "l">>}

isValidBool(boolean) ==
    boolean = <<"t", "r", "u", "e">> \/ boolean = <<"f", "a", "l", "s", "e">>

-----------------------------------------------------------------------------
(* std::stod, as isValidNumber uses it.  strtod skips leading white space,  *)
(* takes an optional sign, then the longest decimal number that follows:    *)
(* digits with at most one point, and an exponent only when it is complete. *)
(* Nothing converted is std::invalid_argument; a value outside the range of *)
(* double (ERANGE) is std::out_of_range.  The hexadecimal, "inf" and "nan"  *)
(* forms need the letters x, i or n, which no input of the model holds.     *)

DigitVal(c) == CHOOSE n \in 0..9 : <<"0", "1", "2", "3", "4", "5", "6", "7", "8", "9">>[n + 1] = c

Drop(s, n) == SubSeq(s, n + 1, Len(s))

RECURSIVE LeadLen(_, _)
\* the number of leading characters of s that are in set S
LeadLen(s, S) == IF s # <<>> /\ Head(s) \in S THEN 1 + LeadLen(Tail(s), S) ELSE 0

RECURSIVE DecValue(_)
DecValue(ds) == IF ds = <<>> THEN 0 ELSE 10 * DecValue(Pop(ds)) + DigitVal(Top(ds))

strtod(str) ==
    LET s0 == Drop(str, LeadLen(str, Whitespace))
        s1 == IF s0 # <<>> /\ Head(s0) \in {"+", "-"} THEN Tail(s0) ELSE s0
        n1 == LeadLen(s1, Digits)
        r1 == Drop(s1, n1)
        n2 == IF r1 # <<>> /\ Head(r1) = "." THEN LeadLen(Tail(r1), Digits) ELSE 0
        r2 == IF r1 # <<>> /\ Head(r1) = "." THEN Drop(r1, n2 + 1) ELSE r1
        hasE == r2 # <<>> /\ Head(r2) \in {"e", "E"}
        r3 == IF hasE THEN Tail(r2) ELSE <<>>
        neg == r3 # <<>> /\ Head(r3) = "-"
        r4 == IF r3 # <<>> /\ Head(r3) \in {"+", "-"} THEN Tail(r3) ELSE r3
        n3 == LeadLen(r4, Digits)
        exp == IF n3 = 0 THEN 0
               ELSE IF neg THEN 0 - DecValue(SubSeq(r4, 1, n3))
               ELSE DecValue(SubSeq(r4, 1, n3))
        mant == SubSeq(s1, 1, n1) \o (IF n2 > 0 THEN SubSeq(r1, 2, n2 + 1) ELSE <<>>)
        zeros == LeadLen(mant, {"0"})
        \* the decimal exponent of the value's leading digit; a double holds
        \* the decimal exponents -308 .. 308
        sci == n1 - zeros - 1 + exp
    IN  IF n1 + n2 = 0 THEN "invalid_argument"
        ELSE IF zeros = Len(mant) THEN "ok"
        ELSE IF sci > 308 \/ sci < 0 - 308 THEN "out_of_range"
        ELSE "ok"

stod(str) == Let(str, strtod)

\* lines 263-271: true, false, or the std::out_of_range that is not caught
isValidNumber(number) ==
    Let(stod(number), LAMBDA r : CASE r = "invalid_argument" -> "false"
                                   [] r = "out_of_range" -> "out_of_range"
                                   [] OTHER -> "true")

-----------------------------------------------------------------------------
(* Json::processJson.  The members the function reads and writes, and the   *)
(* heap, travel through its steps as one record; `error` is the exception   *)
(* thrown, after which nothing more of the function runs.                   *)

\* the exceptions of the constructor, named as the specification names them
\* (the program throws std::runtime_error with the message given here)
InvalidNumberLiteral == "InvalidNumberLiteral"      \* "Invalid number: "
InvalidBooleanLiteral == "InvalidBooleanLiteral"    \* "Invalid boolean: "
MissingKey == "MissingKey"                          \* "No key found for value"
InvalidContainer == "InvalidContainer"  \* "Can't append value to non-object or non-array"
UnbalancedBrackets == "UnbalancedBrackets"          \* "Closing non existing bracket"
BracketMismatch == "BracketMismatch"                \* "Bracket type mismatch"
NoAncestor == "NoAncestor"  \* line 418, working_on_ empty: the message of line 384
UnclosedBracket == "UnclosedBracket"                \* "Bracket not closed: "
StodOutOfRange == "std::out_of_range"               \* std::stod, not caught

Throw(st, e) == [st EXCEPT !.error = e]

\* lines 324-329: key value separator
KeySeparator(st, c) ==
    IF c = ":"
    THEN [st EXCEPT !.processing_key_ = FALSE,
                    !.keys_ = Push(st.keys_, st.text_),
                    !.text_ = <<>>]
    ELSE st

\* lines 331-334
NumberPart(st, c) ==
    IF isNumberPart(c) /\ ~st.processing_bool_
    THEN [st EXCEPT !.processing_number_ = TRUE, !.text_ = Append(st.text_, c)]
    ELSE st

\* lines 336-339
BoolPart(st, c) ==
    IF isBoolPart(c) /\ ~st.processing_number_
    THEN [st EXCEPT !.processing_bool_ = TRUE, !.text_ = Append(st.text_, c)]
    ELSE st

\* lines 341-345: the condition of value termination
Terminates(st, c) ==
    \/ (c = "," /\ ~isClosingBracket(st.last_symbol_))
    \/ (isClosingBracket(c) /\ st.text_ # <<>>)
    \/ ((c = "," \/ c = "}" \/ c = "]") /\ (st.processing_number_ \/ st.processing_bool_))

\* lines 354-447: insert node `child` into the node currently_working_on_;
\* `hp` is the heap with the child in it
AttachTo(st, hp, child) ==
    LET cur == Deref(st.currently_working_on_)
        node == hp[cur]
    IN  IF node.type_ = "OBJECT"
        THEN IF st.keys_ = <<>>
             THEN Throw(st, MissingKey)
             ELSE LET key == Top(st.keys_)
                      map == IF node.object_data_ = nullptr THEN <<>>
                             ELSE Deref(node.object_data_)
                  IN  [st EXCEPT !.keys_ = Pop(st.keys_),
                                 !.heap = [hp EXCEPT ![cur].object_data_ =
                                              Ptr(MapInsert(map, key, child))]]
        ELSE IF node.type_ = "ARRAY"
        THEN LET arr == IF node.array_data_ = nullptr THEN <<>>
                        ELSE Deref(node.array_data_)
             IN  [st EXCEPT !.heap = [hp EXCEPT ![cur].array_data_ =
                                         Ptr(Append(arr, child))]]
        ELSE Throw(st, InvalidContainer)

\* a slip: type_ left as constructed
TextData_Untyped(text) == [JsonData EXCEPT !.string_data_ = text]

\* lines 362-364 and 375-377: the String node of a completed scalar
TextData(text) == [NewNode("STRING") EXCEPT !.string_data_ = text]

\* lines 346-388: value termination
ValueTermination(st) ==
    IF st.processing_number_ /\ isValidNumber(st.text_) = "false"
    THEN Throw(st, InvalidNumberLiteral)
    ELSE IF st.processing_number_ /\ isValidNumber(st.text_) = "out_of_range"
    THEN Throw(st, StodOutOfRange)
    ELSE IF st.processing_bool_ /\ ~isValidBool(st.text_)
    THEN Throw(st, InvalidBooleanLiteral)
    ELSE LET s1 == [st EXCEPT !.processing_number_ = FALSE,
                              !.processing_bool_ = FALSE]
             s2 == AttachTo(s1, Append(s1.heap, TextData(s1.text_)),
                            Len(s1.heap) + 1)
         IN  IF s2.error # "" THEN s2 ELSE [s2 EXCEPT !.text_ = <<>>]

\* a slip: the node worked on is not kept as an ancestor
OpeningBracket_NoAncestor(st, c) ==
    [st EXCEPT !.brackets_ = Push(st.brackets_, c),
               !.last_bracket_ = c,
               !.currently_working_on_ = Ptr(Len(st.heap) + 1),
               !.heap = Append(st.heap,
                               NewNode(IF c = "{" THEN "OBJECT" ELSE "ARRAY"))]

\* a slip: every container made as an array
OpeningBracket_AlwaysArray(st, c) ==
    [st EXCEPT !.brackets_ = Push(st.brackets_, c),
               !.last_bracket_ = c,
               !.working_on_ = Push(st.working_on_, st.currently_working_on_),
               !.currently_working_on_ = Ptr(Len(st.heap) + 1),
               !.heap = Append(st.heap, NewNode("ARRAY"))]

\* lines 390-404: opening bracket
OpeningBracket(st, c) ==
    [st EXCEPT !.brackets_ = Push(st.brackets_, c),
               !.last_bracket_ = c,
               !.working_on_ = IF st.currently_working_on_ # nullptr
                               THEN Push(st.working_on_, st.currently_working_on_)
                               ELSE st.working_on_,
               !.currently_working_on_ = Ptr(Len(st.heap) + 1),
               !.heap = Append(st.heap,
                               NewNode(IF c = "{" THEN "OBJECT" ELSE "ARRAY"))]

\* lines 405-447: closing bracket
ClosingBracket(st, c) ==
    IF st.brackets_ = <<>>
    THEN Throw(st, UnbalancedBrackets)
    ELSE IF ~sameBracketType(c, Top(st.brackets_))
    THEN Throw(st, BracketMismatch)
    ELSE LET s1 == [st EXCEPT !.brackets_ = Pop(st.brackets_),
                              !.last_bracket_ = c]
         IN  IF s1.working_on_ = <<>>
             THEN Throw(s1, NoAncestor)
             ELSE LET temp == Deref(s1.currently_working_on_)
                      s2 == [s1 EXCEPT !.currently_working_on_ = Top(s1.working_on_),
                                       !.working_on_ = Pop(s1.working_on_)]
                  IN  AttachTo(s2, s2.heap, temp)

\* lines 318-450
\* lines 341-388
ValueStep(st, c) == IF Terminates(st, c) THEN ValueTermination(st) ELSE st

\* lines 390-447
BracketStep(st, c) ==
    IF st.error # "" THEN st
    ELSE IF isOpeningBracket(c) THEN OpeningBracket(st, c)
    ELSE IF isClosingBracket(c) THEN ClosingBracket(st, c)
    ELSE st

\* line 449
LastSymbol(st, c) == IF st.error # "" THEN st ELSE [st EXCEPT !.last_symbol_ = c]

processJson(st, c) ==
    IF c \in Whitespace
    THEN st
    ELSE Let(KeySeparator(st, c), LAMBDA s2 :
         Let(NumberPart(s2, c), LAMBDA s3 :
         Let(BoolPart(s3, c), LAMBDA s4 :
         Let(ValueStep(s4, c), LAMBDA s5 :
         Let(BracketStep(s5, c), LAMBDA s6 : LastSymbol(s6, c))))))

\* lines 300-314: one turn of the loop of parseBuffer
parseChar(st, c) ==
    IF c = "\""
    THEN IF st.quotes_open
         THEN [st EXCEPT !.quotes_open = FALSE]
         ELSE [st EXCEPT !.text_ = <<>>, !.quotes_open = TRUE]
    ELSE IF st.quotes_open
         THEN [st EXCEPT !.text_ = Append(st.text_, c)]
         ELSE processJson(st, c)

-----------------------------------------------------------------------------
(* The input.  The file is written by the environment a word at a time, as  *)
(* the parser comes to need it: `file` holds the characters already known   *)
(* to follow, `eof` says that nothing follows them.                         *)

Alphabet == {"{", "}", "[", "]", ",", ":", "\"", " ",
             "1", "-", "e", "t", "E"}

Words == {<<c>> : c \in Alphabet} \cup
         { <<"t", "r", "u", "e">>, <<"f", "a", "l", "s", "e">>, <<"t", "r", "u">>,
           <<"\"", "a", "\"", ":">> }

\* what the input itself shows, whatever the parser makes of it:
\*   quoted     inside a quoted string
\*   open       the brackets outside quotes that are open, innermost last
\*   nested     the brackets outside quotes are well nested so far
\*   prev       the last character that was not white space outside quotes
\*   commaClose a closing bracket has followed a comma with only white space between
\*   token      the bare token being written: the characters outside quotes
\*              since the last structural character, white space left out
\*   gap        white space has followed the token
\*   split      the token has gone on after white space
\*   junk       a token has run into a quote, a colon or an opening bracket
\*   string     the characters between the last pair of quotes
NoneSeen == [quoted |-> FALSE, open |-> <<>>, nested |-> TRUE, prev |-> NUL,
             commaClose |-> FALSE, token |-> <<>>, gap |-> FALSE,
             split |-> FALSE, junk |-> FALSE, string |-> <<>>]

Structural == {"{", "}", "[", "]", ",", ":"}

NoToken(o) == [o EXCEPT !.token = <<>>, !.gap = FALSE, !.split = FALSE]

Junk(o) == [NoToken(o) EXCEPT !.junk = o.junk \/ o.token # <<>>]

Observe(o, c) ==
    IF c = "\""
    THEN IF o.quoted THEN [o EXCEPT !.quoted = FALSE, !.prev = c]
         ELSE [Junk(o) EXCEPT !.quoted = TRUE, !.prev = c, !.string = <<>>]
    ELSE IF o.quoted THEN [o EXCEPT !.prev = c, !.string = Append(o.string, c)]
    ELSE IF c \in Whitespace THEN [o EXCEPT !.gap = o.token # <<>>]
    ELSE IF c \in {"{", "["}
    THEN [Junk(o) EXCEPT !.open = Push(o.open, c), !.prev = c]
    ELSE IF c \in {"}", "]"}
    THEN [NoToken(o) EXCEPT
                   !.nested = o.nested /\ o.open # <<>>
                                /\ Top(o.open) = (IF c = "}" THEN "{" ELSE "["),
                   !.open = IF o.open = <<>> THEN <<>> ELSE Pop(o.open),
                   !.commaClose = o.commaClose \/ o.prev = ",",
                   !.prev = c]
    ELSE IF c = ":" THEN [Junk(o) EXCEPT !.prev = c]
    ELSE IF c \in Structural THEN [NoToken(o) EXCEPT !.prev = c]
    ELSE [o EXCEPT !.prev = c, !.token = Append(o.token, c),
                   !.split = o.split \/ o.gap]

-----------------------------------------------------------------------------
(* The state of the constructor as one record, and back *)

St == [last_bracket_ |-> last_bracket_, last_symbol_ |-> last_symbol_,
       brackets_ |-> brackets_, keys_ |-> keys_, working_on_ |-> working_on_,
       currently_working_on_ |-> currently_working_on_, text_ |-> text_,
       quotes_open |-> quotes_open, processing_key_ |-> processing_key_,
       processing_bool_ |-> processing_bool_,
       processing_number_ |-> processing_number_,
       heap |-> heap, error |-> ""]

Becomes(st) ==
    /\ last_bracket_' = st.last_bracket_
    /\ last_symbol_' = st.last_symbol_
    /\ brackets_' = st.brackets_
    /\ keys_' = st.keys_
    /\ working_on_' = st.working_on_
    /\ currently_working_on_' = st.currently_working_on_
    /\ text_' = st.text_
    /\ quotes_open' = st.quotes_open
    /\ processing_key_' = st.processing_key_
    /\ processing_bool_' = st.processing_bool_
    /\ processing_number_' = st.processing_number_
    /\ heap' = st.heap
    /\ error' = st.error

NoDoc == [k |-> "none"]
NoCall == [op |-> "none", index |-> 0, key |-> <<>>, on |-> nullptr,
           out |-> "", text |-> <<>>, before |-> <<>>]

\* lines 228-248 and 195-198: the members' initialisers
InitJson ==
    /\ last_bracket_ = NUL
    /\ last_symbol_ = NUL
    /\ brackets_ = <<>>
    /\ keys_ = <<>>
    /\ working_on_ = <<>>
    /\ heap = <<NewNode("ARRAY")>>
    /\ currently_working_on_ = Ptr(1)
    /\ text_ = <<>>
    /\ quotes_open = FALSE
    /\ processing_key_ = TRUE
    /\ processing_bool_ = FALSE
    /\ processing_number_ = FALSE
    /\ json_data_ = JsonData
    /\ pc = "readBuffer"
    /\ i = 0
    /\ error = ""
    /\ good = TRUE
    /\ seen = NoneSeen
    /\ h = nullptr
    /\ call = NoCall

Init ==
    /\ InitJson
    /\ file = <<>>
    /\ eof = FALSE
    /\ budget = MaxWords
    /\ doc = NoDoc

-----------------------------------------------------------------------------
(* The environment *)

\* the file goes on with word w
Write(w) ==
    /\ pc = "parseBuffer" /\ i < buffer_size_
    /\ file = <<>> /\ ~eof /\ budget > 0
    /\ file' = w
    /\ budget' = budget - 1
    /\ UNCHANGED <<parser, json_data_, heap, eof, good, pc, i, error, doc, seen, h, call>>

\* the file ends here
EndOfFile ==
    /\ pc = "parseBuffer" /\ i < buffer_size_
    /\ file = <<>> /\ ~eof
    /\ eof' = TRUE
    /\ UNCHANGED <<parser, json_data_, heap, file, good, budget, pc, i, error, doc, seen, h, call>>

-----------------------------------------------------------------------------
(* The constructor: parseFile, readBuffer, parseBuffer *)

\* lines 279-283 and 286: file_.read() takes the next buffer_size_ characters,
\* or the fewer that are left, and then the stream has failed
readBuffer ==
    /\ pc = "readBuffer"
    /\ IF good THEN pc' = "parseBuffer" /\ i' = 0
               ELSE pc' = "parseFile" /\ i' = i
    /\ UNCHANGED <<parser, json_data_, heap, stream, error, doc, seen, h, call>>

\* lines 299-315: one character of the chunk, i < file_.gcount()
parseBuffer ==
    /\ pc = "parseBuffer" /\ i < buffer_size_ /\ file # <<>>
    /\ \E st \in {parseChar(St, Head(file))} :
           /\ Becomes(st)
           /\ pc' = IF st.error # "" THEN "threw" ELSE "parseBuffer"
    /\ seen' = Observe(seen, Head(file))
    /\ file' = Tail(file)
    /\ i' = i + 1
    /\ UNCHANGED <<json_data_, eof, good, budget, doc, h, call>>

\* a slip: the token under way is dropped with the chunk
parseBufferEnd_LosesText ==
    /\ pc = "parseBuffer"
    /\ \/ i = buffer_size_ /\ good' = good
       \/ i < buffer_size_ /\ file = <<>> /\ eof /\ good' = FALSE
    /\ pc' = "readBuffer"
    /\ text_' = <<>>
    /\ UNCHANGED <<last_bracket_, last_symbol_, brackets_, keys_, working_on_,
                   currently_working_on_, quotes_open, processing_key_,
                   processing_bool_, processing_number_>>
    /\ UNCHANGED <<json_data_, heap, file, eof, budget, i, error, doc, seen, h, call>>

\* line 299: i = file_.gcount(), the chunk is parsed.  A chunk shorter than
\* buffer_size_ is the one at which the read met the end of the file.
parseBufferEnd ==
    /\ pc = "parseBuffer"
    /\ \/ i = buffer_size_ /\ good' = good
       \/ i < buffer_size_ /\ file = <<>> /\ eof /\ good' = FALSE
    /\ pc' = "readBuffer"
    /\ UNCHANGED <<parser, json_data_, heap, file, eof, budget, i, error, doc, seen, h, call>>

\* what the dereference of a null container pointer can do: the process is
\* killed, or the call goes on with an indeterminate value
Indeterminate == {[JsonData EXCEPT !.type_ = t] : t \in JsonType}

\* a slip: only deeper nesting reported
Unclosed_Nested(brackets) == Len(brackets) > 1

\* line 291: a bracket is still open
Unclosed(brackets) == brackets # <<>>

\* lines 291-295: after the loop
parseFile ==
    /\ pc = "parseFile"
    /\ IF Unclosed(brackets_)
       THEN pc' = "threw" /\ error' = UnclosedBracket /\ json_data_' = json_data_
       ELSE LET top == heap[Deref(currently_working_on_)]
            IN  IF top.array_data_ = nullptr
                THEN \/ pc' = "killed" /\ error' = "SIGSEGV" /\ json_data_' = json_data_
                     \/ pc' = "undefined" /\ error' = ""
                           /\ json_data_' \in Indeterminate
                ELSE IF Deref(top.array_data_) = <<>>
                THEN pc' = "threw" /\ error' = "std::out_of_range"
                         /\ json_data_' = json_data_
                ELSE pc' = "constructed" /\ error' = ""
                         /\ json_data_' = heap[Deref(top.array_data_)[1]]
    /\ UNCHANGED <<parser, heap, stream, i, doc, seen, h, call>>

Next ==
    \/ \E w \in Words : Write(w)
    \/ EndOfFile
    \/ readBuffer
    \/ parseBuffer
    \/ parseBufferEnd
    \/ parseFile

Spec == Init /\ [][Next]_vars

-----------------------------------------------------------------------------
(* Documents: JSON values and the text they are written as.  A value is a   *)
(* quoted string, a bare literal, an array of values or an object, whose    *)
(* members are <<key, value>> pairs with distinct keys.                     *)

Str(t) == [k |-> "scalar", quoted |-> TRUE, text |-> t]
Lit(t) == [k |-> "scalar", quoted |-> FALSE, text |-> t]
Arr(es) == [k |-> "arr", elems |-> es]
Obj(ms) == [k |-> "obj", members |-> ms]

MaxElems == 3

Leaves == {Lit(<<"1">>), Lit(<<"t", "r", "u", "e">>), Str(<<>>), Str(<<"a">>)}
Elements == Leaves \cup {Arr(<<>>), Obj(<<>>)}
DocKeys == {<<>>, <<"a">>}

SeqsUpTo(S, n) == UNION {[1..m -> S] : m \in 0..n}

Containers(S) ==
    {Arr(es) : es \in SeqsUpTo(S, MaxElems)}
    \cup {Obj(<<>>)}
    \cup {Obj(<< <<key, v>> >>) : key \in DocKeys, v \in S}
    \cup {Obj(<< <<<<>>, v>>, <<<<"a">>, w>> >>) : v \in S, w \in S}

Inner == Containers(Elements)

Docs == Inner \cup {Arr(<<x>>) : x \in Inner} \cup {Obj(<< <<<<"a">>, x>> >>) : x \in Inner}

RECURSIVE Render(_)
RECURSIVE RenderList(_, _)
\* the values of list xs, each written by Render (arrays) or as "key": value
\* (objects), with ", " between them
RenderList(xs, isObj) ==
    IF xs = <<>> THEN <<>>
    ELSE (IF isObj
          THEN <<"\"">> \o Head(xs)[1] \o <<"\"", ":", " ">> \o Render(Head(xs)[2])
          ELSE Render(Head(xs)))
         \o (IF Len(xs) > 1 THEN <<",", " ">> ELSE <<>>)
         \o RenderList(Tail(xs), isObj)

Render(v) ==
    IF v.k = "scalar"
    THEN IF v.quoted THEN <<"\"">> \o v.text \o <<"\"">> ELSE v.text
    ELSE IF v.k = "arr"
    THEN <<"[">> \o RenderList(v.elems, FALSE) \o <<"]">>
    ELSE <<"{">> \o RenderList(v.members, TRUE) \o <<"}">>

\* what a document holds: texts, array order, and the value under each key
RECURSIVE Content(_)
Content(v) ==
    IF v.k = "scalar" THEN [k |-> "scalar", text |-> v.text]
    ELSE IF v.k = "arr"
    THEN [k |-> "arr", elems |-> [j \in 1..Len(v.elems) |-> Content(v.elems[j])]]
    ELSE [k |-> "obj",
          map |-> [key \in {v.members[j][1] : j \in 1..Len(v.members)} |->
                      Content((CHOOSE m \in {v.members[j] : j \in 1..Len(v.members)} :
                                  m[1] = key)[2])]]

\* the same of a JsonData: an absent container reads as an empty one
ArrayOf(n) == IF n.array_data_ = nullptr THEN <<>> ELSE Deref(n.array_data_)
ObjectOf(n) == IF n.object_data_ = nullptr THEN <<>> ELSE Deref(n.object_data_)

RECURSIVE TreeOf(_)
TreeOf(n) ==
    IF n.type_ = "STRING" THEN [k |-> "scalar", text |-> n.string_data_]
    ELSE IF n.type_ = "ARRAY"
    THEN [k |-> "arr", elems |-> [j \in 1..Len(ArrayOf(n)) |-> TreeOf(heap[ArrayOf(n)[j]])]]
    ELSE IF n.type_ = "OBJECT"
    THEN [k |-> "obj", map |-> [key \in DOMAIN ObjectOf(n) |-> TreeOf(heap[ObjectOf(n)[key]])]]
    ELSE [k |-> "uninit"]

\* the documents whose trees the caller then reads and deletes from
ApiInner ==
    {Arr(es) : es \in SeqsUpTo({Lit(<<"1">>), Arr(<<>>)}, MaxElems)}
    \cup {Obj(<<>>), Obj(<< <<<<>>, Lit(<<"1">>)>> >>), Obj(<< <<<<"a">>, Obj(<<>>)>> >>),
          Obj(<< <<<<>>, Str(<<"a">>)>>, <<<<"a">>, Arr(<<>>)>> >>)}

ApiDocs == ApiInner \cup {Arr(<<x>>) : x \in ApiInner}
                    \cup {Obj(<< <<<<"a">>, x>> >>) : x \in ApiInner}

\* the file holds a whole document of set D
InitFile(D) ==
    /\ InitJson
    /\ doc \in D
    /\ file = Render(doc)
    /\ eof = TRUE
    /\ budget = 0

InitDocs == InitFile(Docs)
InitApi == InitFile(ApiDocs)

-----------------------------------------------------------------------------
(* The accessors of the finished tree.  Each is a function of the heap and  *)
(* the handle it is called on; `out` is "ok", the exception thrown (named   *)
(* as the specification names it) or "UB" where the program dereferences a  *)
(* null container pointer; `ret` is the handle returned.                    *)

NullHandle == "NullHandle"
NotAnObject == "NotAnObject"
NotAnArray == "NotAnArray"
NotAScalar == "NotAScalar"
KeyNotFound == "KeyNotFound"
IndexOutOfRange == "IndexOutOfRange"

Result(o, hp, r, t) == [out |-> o, heap |-> hp, ret |-> r, text |-> t]
Fails(o, hp) == Result(o, hp, nullptr, <<>>)

\* a slip: the last element removed, whatever the index
Erase_Last(arr, index) == SubSeq(arr, 1, Len(arr) - 1)

\* std::vector::erase(begin() + index)
Erase(arr, index) == SubSeq(arr, 1, index) \o SubSeq(arr, index + 2, Len(arr))

\* a slip: the map cleared
MapErase_All(m, key) == <<>>

\* std::unordered_map::erase(key)
MapErase(m, key) == [x \in DOMAIN m \ {key} |-> m[x]]

\* lines 37-51: ov_shared_ptr::del(const std::string&)
del_key(hp, ptr_, key) ==
    IF ptr_ = nullptr THEN Fails(NullHandle, hp)
    ELSE IF hp[Deref(ptr_)].type_ # "OBJECT" THEN Fails(NotAnObject, hp)
    ELSE IF hp[Deref(ptr_)].object_data_ = nullptr THEN Fails("UB", hp)
    ELSE IF key \notin DOMAIN Deref(hp[Deref(ptr_)].object_data_)
    THEN Fails(KeyNotFound, hp)
    ELSE Result("ok",
                [hp EXCEPT ![Deref(ptr_)].object_data_ =
                    Ptr(MapErase(Deref(hp[Deref(ptr_)].object_data_), key))],
                nullptr, <<>>)

\* lines 53-71: ov_shared_ptr::del(const int)
del_index(hp, ptr_, index) ==
    IF ptr_ = nullptr THEN Fails(NullHandle, hp)
    ELSE IF hp[Deref(ptr_)].type_ # "ARRAY" THEN Fails(NotAnArray, hp)
    ELSE IF index < 0 THEN Fails(IndexOutOfRange, hp)
    ELSE IF hp[Deref(ptr_)].array_data_ = nullptr THEN Fails("UB", hp)
    ELSE IF index >= Len(Deref(hp[Deref(ptr_)].array_data_))
    THEN Fails(IndexOutOfRange, hp)
    ELSE LET arr == Deref(hp[Deref(ptr_)].array_data_)
         IN  Result("ok",
                    [hp EXCEPT ![Deref(ptr_)].array_data_ =
                        Ptr(IF Len(arr) = 1 THEN <<>> ELSE Erase(arr, index))],
                    nullptr, <<>>)

\* lines 73-87: ov_shared_ptr::operator[](const std::string&)
at_key(hp, ptr_, key) ==
    IF ptr_ = nullptr THEN Fails(NullHandle, hp)
    ELSE IF hp[Deref(ptr_)].type_ # "OBJECT" THEN Fails(NotAnObject, hp)
    ELSE IF hp[Deref(ptr_)].object_data_ = nullptr THEN Fails("UB", hp)
    ELSE IF key \notin DOMAIN Deref(hp[Deref(ptr_)].object_data_)
    THEN Fails(KeyNotFound, hp)
    ELSE Result("ok", hp, Ptr(Deref(hp[Deref(ptr_)].object_data_)[key]), <<>>)

\* lines 89-103: ov_shared_ptr::operator[](const int)
at_index(hp, ptr_, index) ==
    IF ptr_ = nullptr THEN Fails(NullHandle, hp)
    ELSE IF hp[Deref(ptr_)].type_ # "ARRAY" THEN Fails(NotAnArray, hp)
    ELSE IF index < 0 THEN Fails(IndexOutOfRange, hp)
    ELSE IF hp[Deref(ptr_)].array_data_ = nullptr THEN Fails("UB", hp)
    ELSE IF index >= Len(Deref(hp[Deref(ptr_)].array_data_))
    THEN Fails(IndexOutOfRange, hp)
    ELSE Result("ok", hp, Ptr(Deref(hp[Deref(ptr_)].array_data_)[index + 1]), <<>>)

\* a slip: the nodes compared, not the pointers
operator_eq_Deep(p, q) ==
    \/ p = q
    \/ p # nullptr /\ q # nullptr /\ heap[Deref(p)] = heap[Deref(q)]

\* lines 109-111: ov_shared_ptr::operator==
operator_eq(p, q) == p = q

\* lines 121-131: ov_shared_ptr::operator std::string()
to_string(hp, ptr_) ==
    IF ptr_ = nullptr THEN Fails(NullHandle, hp)
    ELSE IF hp[Deref(ptr_)].type_ # "STRING" THEN Fails(NotAScalar, hp)
    ELSE Result("ok", hp, nullptr, hp[Deref(ptr_)].string_data_)

\* lines 200-210: Json::operator[](const int), on json_data_
Json_at_index(hp, root, index) ==
    IF root.array_data_ = nullptr THEN Fails(NotAnArray, hp)
    ELSE IF index < 0 \/ index >= Len(Deref(root.array_data_))
    THEN Fails(IndexOutOfRange, hp)
    ELSE Result("ok", hp, Ptr(Deref(root.array_data_)[index + 1]), <<>>)

\* lines 212-222: Json::operator[](const std::string&), on json_data_
Json_at_key(hp, root, key) ==
    IF root.object_data_ = nullptr THEN Fails(NotAnObject, hp)
    ELSE IF key \notin DOMAIN Deref(root.object_data_) THEN Fails(KeyNotFound, hp)
    ELSE Result("ok", hp, Ptr(Deref(root.object_data_)[key]), <<>>)

-----------------------------------------------------------------------------
(* The caller, once the constructor has returned: it holds one handle `h`,  *)
(* calls an accessor, and keeps the handle a successful access returns.     *)

Indices == -1 .. MaxElems
CallKeys == {<<>>, <<"a">>, <<"b">>}

\* the call named op, with result r, made on handle `on`
Call(op, index, key, on, r) ==
    /\ \/ r.out # "UB" /\ pc' = pc /\ call' = [op |-> op, index |-> index, key |-> key,
                on |-> on, out |-> r.out, text |-> r.text, before |-> heap]
       \/ r.out = "UB" /\ pc' = "killed" /\ call' = [op |-> op, index |-> index,
                key |-> key, on |-> on, out |-> "SIGSEGV", text |-> <<>>, before |-> heap]
       \/ r.out = "UB" /\ pc' = "undefined" /\ call' = [op |-> op, index |-> index,
                key |-> key, on |-> on, out |-> "undefined", text |-> <<>>, before |-> heap]
    /\ heap' = r.heap
    /\ h' = IF r.out = "ok" /\ r.ret # nullptr THEN r.ret ELSE h
    /\ UNCHANGED <<parser, json_data_, stream, i, error, doc, seen>>

JsonAtIndex(index) ==
    /\ pc = "constructed"
    /\ Call("Json[index]", index, <<>>, nullptr, Json_at_index(heap, json_data_, index))

JsonAtKey(key) ==
    /\ pc = "constructed"
    /\ Call("Json[key]", 0, key, nullptr, Json_at_key(heap, json_data_, key))

AtIndex(index) ==
    /\ pc = "constructed"
    /\ Call("[index]", index, <<>>, h, at_index(heap, h, index))

AtKey(key) ==
    /\ pc = "constructed"
    /\ Call("[key]", 0, key, h, at_key(heap, h, key))

DelIndex(index) ==
    /\ pc = "constructed"
    /\ Call("del(index)", index, <<>>, h, del_index(heap, h, index))

DelKey(key) ==
    /\ pc = "constructed"
    /\ Call("del(key)", 0, key, h, del_key(heap, h, key))

ToText ==
    /\ pc = "constructed"
    /\ Call("string", 0, <<>>, h, to_string(heap, h))

NextDocs ==
    \/ readBuffer
    \/ parseBuffer
    \/ parseBufferEnd
    \/ parseFile

SpecDocs == InitDocs /\ [][NextDocs]_vars

NextApi ==
    \/ readBuffer
    \/ parseBuffer
    \/ parseBufferEnd
    \/ parseFile
    \/ \E index \in Indices : JsonAtIndex(index)
    \/ \E key \in CallKeys : JsonAtKey(key)
    \/ \E index \in Indices : AtIndex(index)
    \/ \E key \in CallKeys : AtKey(key)
    \/ \E index \in Indices : DelIndex(index)
    \/ \E key \in CallKeys : DelKey(key)
    \/ ToText

SpecApi == InitApi /\ [][NextApi]_vars

-----------------------------------------------------------------------------
(* Properties of the constructor *)

\* the constructor has returned or thrown, or the process is gone
Ended == pc \in {"constructed", "threw", "killed", "undefined"}

\* parseFile left its loop: the input was read to its end
Exhausted == Ended /\ ~good

\* the synthetic top-level array
TopLevel == ArrayOf(heap[Deref(currently_working_on_)])

True == <<"t", "r", "u", "e">>
False == <<"f", "a", "l", "s", "e">>

\* C1: for every valid document of nested objects and arrays with string,
\* number and boolean leaves, empty strings and empty containers included,
\* construction succeeds and the tree holds exactly the document's keys,
\* nesting, leaf texts and array order.
C1_ValidDocumentIsRecovered ==
    Ended => pc = "constructed" /\ TreeOf(json_data_) = Content(doc)

\* C2: an input in which a closing bracket follows a comma, with only white
\* space between, never completes construction successfully.
C2_TrailingCommaFails ==
    pc = "constructed" => ~seen.commaClose

\* C3: when the input is exhausted, construction fails with UnclosedBracket
\* if and only if bracketStack is non-empty; and no input that leaves a
\* bracket open outside quotes is constructed, however it is cut into chunks.
C3_UnclosedBracketAtEnd ==
    /\ Exhausted => ((pc = "threw" /\ error = UnclosedBracket) <=> brackets_ # <<>>)
    /\ Ended /\ seen.open # <<>> => pc = "threw"

\* C3's case: the input [1, ends inside the array after a value was attached,
\* and the constructor threw UnclosedBracket
C3_Witness ==
    /\ pc = "threw" /\ error = UnclosedBracket /\ ~good
    /\ brackets_ = <<"[">> /\ seen.open = <<"[">>
    /\ Len(heap) = 3 /\ heap[3].type_ = "STRING"

\* a step of parseBuffer that hands character c to processJson
Processes(c) ==
    /\ pc = "parseBuffer" /\ i' = i + 1
    /\ ~quotes_open /\ Head(file) = c

Family(c) == IF c \in {"[", "]"} THEN "square" ELSE "curly"

\* value termination threw: nothing of the bracket handling has run
TerminationThrew ==
    \/ error' \in {InvalidNumberLiteral, InvalidBooleanLiteral, StodOutOfRange}
    \/ error' \in {MissingKey, InvalidContainer} /\ brackets_' = brackets_

C4_WellNested == pc = "constructed" => seen.nested /\ seen.open = <<>>

C4_ClosingBracket(c) ==
    /\ brackets_ = <<>> => error' = UnbalancedBrackets
    /\ brackets_ # <<>> /\ Family(Top(brackets_)) # Family(c) => error' = BracketMismatch
    /\ brackets_ # <<>> /\ Family(Top(brackets_)) = Family(c) => brackets_' = Pop(brackets_)

\* C4, as stated: construction succeeds only on well-nested brackets; every
\* closing bracket seen with an empty bracketStack fails with
\* UnbalancedBrackets, one of the other family than the top fails with
\* BracketMismatch, and otherwise exactly the top bracket is popped.
C4_AsStated ==
    /\ []C4_WellNested
    /\ [][\A c \in {"}", "]"} : Processes(c) => C4_ClosingBracket(c)]_vars

\* C4, amended: the same, for every closing bracket on which value
\* termination has not already thrown.
C4_ClosingBrackets ==
    /\ []C4_WellNested
    /\ [][\A c \in {"}", "]"} :
            Processes(c) /\ ~TerminationThrew => C4_ClosingBracket(c)]_vars

\* C4's case: a closing bracket of the other family met an open bracket
C4_Witness ==
    /\ pc = "threw" /\ error = BracketMismatch
    /\ brackets_ # <<>> /\ seen.prev \in {"}", "]"}
    /\ Family(Top(brackets_)) # Family(seen.prev)

\* C5: whenever value termination happens while inBoolean is set, the parse
\* aborts with InvalidBooleanLiteral unless tokenBuffer is exactly "true" or
\* "false", and the scalar then made holds that text.
C5_BooleanLiteral ==
    [][\A c \in {",", "}", "]"} :
          Processes(c) /\ processing_bool_ =>
              IF text_ \in {True, False}
              THEN /\ error' # InvalidBooleanLiteral
                   /\ Len(heap') > Len(heap) =>
                        /\ heap'[Len(heap) + 1].type_ = "STRING"
                        /\ heap'[Len(heap) + 1].string_data_ = text_
              ELSE error' = InvalidBooleanLiteral /\ heap' = heap]_vars

\* C5's case: {"a": tru} and the like, thrown at the closing bracket
C5_Witness ==
    /\ pc = "threw" /\ error = InvalidBooleanLiteral
    /\ processing_bool_ /\ text_ = <<"t", "r", "u">>

IsDigits(t) == t # <<>> /\ \A k \in 1 .. Len(t) : t[k] \in Digits

\* a JSON number as the alphabet can write it: sign, digits, exponent
IsNumber(t) ==
    /\ t # <<>>
    /\ LET u == IF Head(t) = "-" THEN Tail(t) ELSE t
       IN  \/ IsDigits(u)
           \/ \E k \in 2 .. Len(u) - 1 :
                  /\ u[k] \in {"e", "E"}
                  /\ IsDigits(SubSeq(u, 1, k - 1))
                  /\ IsDigits(SubSeq(u, k + 1, Len(u)))

\* C6: the text of every scalar made is exactly the characters between the
\* quotes of a quoted string, and exactly the characters of a bare number or
\* boolean token as written.
C6_ScalarTextAsWritten ==
    [][\A c \in {",", "}", "]"} :
          /\ Processes(c)
          /\ Len(heap') > Len(heap) /\ heap'[Len(heap) + 1].type_ = "STRING"
          => LET made == heap'[Len(heap) + 1].string_data_
             IN  /\ (IsNumber(seen.token) \/ seen.token \in {True, False})
                    /\ ~seen.split /\ ~seen.junk => made = seen.token
                 /\ seen.token = <<>> /\ seen.prev = "\"" => made = seen.string]_vars

\* C10: whenever construction completes, the top-level array holds exactly
\* one element, and that element is the root.
C10_SingleTopLevelElement ==
    pc = "constructed" => Len(TopLevel) = 1 /\ json_data_ = heap[TopLevel[1]]

-----------------------------------------------------------------------------
(* Properties of the accessors.  `call` is the last call made, call.before  *)
(* the heap it was made on, and heap the heap it left.                      *)

Called(ops) == call.op \in ops /\ call.on # nullptr
Target == call.before[Deref(call.on)]
TargetNow == heap[Deref(call.on)]

\* C7: del(i) with 0 <= i < n on an Array node of length n leaves n - 1
\* elements, those before i where they were and those after i one place
\* down; deleting the sole element leaves an empty array, on which every
\* later index access fails with IndexOutOfRange.
C7_DeleteByIndex ==
    Called({"del(index)"}) /\ Target.type_ = "ARRAY"
        /\ call.index >= 0 /\ call.index < Len(ArrayOf(Target))
    => LET old == ArrayOf(Target)
           new == ArrayOf(TargetNow)
           d == call.index + 1
       IN  /\ call.out = "ok"
           /\ TargetNow.array_data_ # nullptr
           /\ Len(new) = Len(old) - 1
           /\ \A j \in 1 .. Len(old) :
                 /\ j < d => new[j] = old[j]
                 /\ j > d => new[j - 1] = old[j]
           /\ Len(old) = 1 =>
                 \A index \in Indices :
                     at_index(heap, call.on, index).out = IndexOutOfRange

\* C7's case: the middle one of three elements deleted
C7_Witness ==
    /\ Called({"del(index)"}) /\ call.out = "ok" /\ call.index = 1
    /\ Len(ArrayOf(Target)) = 3
    /\ ArrayOf(TargetNow) = <<ArrayOf(Target)[1], ArrayOf(Target)[3]>>

\* C8: on every Array node of length n, parsed or left by deletions, index
\* access and del with index -1 or n fail with IndexOutOfRange and every
\* index of 0 .. n-1 succeeds, on the root as on every other node; an empty
\* string is a key to the parser and to key access.
C8_IndexBoundaries ==
    /\ Called({"[index]", "del(index)"}) /\ Target.type_ = "ARRAY" =>
           IF call.index \in 0 .. Len(ArrayOf(Target)) - 1
           THEN call.out = "ok"
           ELSE call.index \in {-1, Len(ArrayOf(Target))} => call.out = IndexOutOfRange
    /\ call.op = "Json[index]" /\ json_data_.type_ = "ARRAY" =>
           IF call.index \in 0 .. Len(ArrayOf(json_data_)) - 1
           THEN call.out = "ok"
           ELSE call.index \in {-1, Len(ArrayOf(json_data_))} => call.out = IndexOutOfRange
    /\ Called({"[key]"}) /\ Target.type_ = "OBJECT" /\ call.key = <<>>
           /\ <<>> \in DOMAIN ObjectOf(Target) => call.out = "ok"
    /\ pc = "constructed" /\ doc = Obj(<< <<<<>>, Lit(<<"1">>)>> >>) =>
           TreeOf(json_data_) = Content(doc)

\* C9: an Object or Array node whose container was never allocated answers
\* key access and del by key with KeyNotFound and index access and del by
\* index with IndexOutOfRange, as a node with an empty container does.
C9_AbsentContainerIsEmpty ==
    /\ Called({"[key]", "del(key)"}) /\ Target.type_ = "OBJECT"
           /\ Target.object_data_ = nullptr => call.out = KeyNotFound
    /\ Called({"[index]", "del(index)"}) /\ Target.type_ = "ARRAY"
           /\ Target.array_data_ = nullptr => call.out = IndexOutOfRange

\* the read just made, made once more
Again ==
    IF call.op = "[index]" THEN at_index(heap, call.on, call.index)
    ELSE IF call.op = "[key]" THEN at_key(heap, call.on, call.key)
    ELSE IF call.op = "Json[index]" THEN Json_at_index(heap, json_data_, call.index)
    ELSE Json_at_key(heap, json_data_, call.key)

Reads == {"[index]", "[key]", "Json[index]", "Json[key]"}

\* the handles a read of another index or key of the same node returns
Others ==
    IF call.op = "[index]"
    THEN {at_index(heap, call.on, index) : index \in Indices \ {call.index}}
    ELSE IF call.op = "[key]"
    THEN {at_key(heap, call.on, key) : key \in CallKeys \ {call.key}}
    ELSE IF call.op = "Json[index]"
    THEN {Json_at_index(heap, json_data_, index) : index \in Indices \ {call.index}}
    ELSE {Json_at_key(heap, json_data_, key) : key \in CallKeys \ {call.key}}

\* C11: a read of the same key or index repeated on the unmodified node
\* returns a handle that compares equal to the first and yields the same
\* text; handles to two different nodes never compare equal, whatever the
\* nodes hold.
C11_IdentityEquality ==
    call.op \in Reads /\ call.out = "ok" =>
        /\ heap = call.before
        /\ Again.out = "ok"
        /\ operator_eq(h, Again.ret)
        /\ to_string(heap, h) = to_string(Again.heap, Again.ret)
        /\ \A r \in Others : r.out = "ok" => ~operator_eq(h, r.ret)

\* C11's case: one of two elements that hold the same is read
C11_Witness ==
    /\ call.op = "[index]" /\ call.out = "ok" /\ call.index = 0
    /\ at_index(heap, call.on, 1).out = "ok"
    /\ heap[Deref(h)] = heap[Deref(at_index(heap, call.on, 1).ret)]
    /\ to_string(heap, h).out = "ok"

Failures == {NullHandle, NotAnObject, NotAnArray, NotAScalar, KeyNotFound,
             IndexOutOfRange}

\* C12: a call that fails with NullHandle, NotAnObject, NotAnArray,
\* NotAScalar, KeyNotFound or IndexOutOfRange leaves the whole tree as it
\* was, and a successful del by key removes that one mapping of that one
\* node and nothing else.
C12_Frame ==
    /\ call.out \in Failures => heap = call.before
    /\ Called({"del(key)"}) /\ call.out = "ok" =>
          /\ Len(heap) = Len(call.before)
          /\ \A n \in 1 .. Len(heap) : n # Deref(call.on) => heap[n] = call.before[n]
          /\ TargetNow.type_ = Target.type_
          /\ TargetNow.array_data_ = Target.array_data_
          /\ DOMAIN ObjectOf(TargetNow) = DOMAIN ObjectOf(Target) \ {call.key}
          /\ \A key \in DOMAIN ObjectOf(TargetNow) :
                ObjectOf(TargetNow)[key] = ObjectOf(Target)[key]

\* C12's case: one of two keys deleted
C12_Witness ==
    /\ Called({"del(key)"}) /\ call.out = "ok"
    /\ DOMAIN ObjectOf(Target) = {<<>>, <<"a">>}
    /\ DOMAIN ObjectOf(TargetNow) = {<<>>}

Kinds == {"STRING", "OBJECT", "ARRAY"}

\* C13: after a successful construction, and after every deletion, the
\* root and every node of the tree has kind String, Object or Array.
C13_NoUninitializedNode ==
    pc = "constructed" =>
        /\ json_data_.type_ \in Kinds
        /\ \A n \in 1 .. Len(heap) : heap[n].type_ \in Kinds

\* C13's case: a tree with nodes of all three kinds, after a deletion
C13_Witness ==
    /\ pc = "constructed" /\ call.op = "del(index)" /\ call.out = "ok"
    /\ {heap[n].type_ : n \in 1 .. Len(heap)} = Kinds

-----------------------------------------------------------------------------
(* Chunks: the file holds any text of up to MaxChunkWords words, read in    *)
(* chunks of buffer_size_ characters.                                       *)

MaxChunkWords == 3

RECURSIVE Flatten(_)
Flatten(ws) == IF ws = <<>> THEN <<>> ELSE Head(ws) \o Flatten(Tail(ws))

Texts == {Flatten(ws) : ws \in SeqsUpTo(Words, MaxChunkWords)}

InitChunks ==
    /\ InitJson
    /\ \E text \in Texts :
          /\ doc = [k |-> "text", text |-> text]
          /\ file = text
    /\ eof = TRUE
    /\ budget = 0

SpecChunks == InitChunks /\ [][NextDocs]_vars

\* lines 228-242: the members as initialised
St0 ==
    [last_bracket_ |-> NUL, last_symbol_ |-> NUL, brackets_ |-> <<>>,
     keys_ |-> <<>>, working_on_ |-> <<>>, currently_working_on_ |-> Ptr(1),
     text_ |-> <<>>, quotes_open |-> FALSE, processing_key_ |-> TRUE,
     processing_bool_ |-> FALSE, processing_number_ |-> FALSE,
     heap |-> <<NewNode("ARRAY")>>, error |-> ""]

\* lines 299-315 with the whole text as one buffer: the loop runs to its end
\* or to the first exception
RECURSIVE OneChunk(_, _)
OneChunk(st, text) ==
    IF text = <<>> \/ st.error # "" THEN st
    ELSE Let(parseChar(st, Head(text)), LAMBDA s2 : OneChunk(s2, Tail(text)))

\* C14: however the text falls into chunks, the members after the last
\* chunk, the exception thrown and the tree built are those of parsing the
\* same text as one chunk.
C14_ChunksAsOne ==
    pc \in {"parseFile", "threw", "constructed"} =>
        LET one == OneChunk(St0, doc.text)
            top == one.heap[Deref(one.currently_working_on_)]
        IN  /\ pc = "parseFile" => St = one
            /\ pc = "threw" =>
                  IF error = UnclosedBracket
                  THEN St = one /\ one.brackets_ # <<>>
                  ELSE IF error = "std::out_of_range" /\ St = one
                  THEN one.brackets_ = <<>> /\ ArrayOf(top) = <<>>
                  ELSE [St EXCEPT !.error = error] = one
            /\ pc = "constructed" =>
                  /\ St = one /\ one.brackets_ = <<>>
                  /\ json_data_ = one.heap[ArrayOf(top)[1]]

\* C14's case: a tree built from a text whose literal begins in one chunk,
\* goes on through the next and ends in a third
C14_Witness ==
    /\ pc = "constructed"
    /\ doc.text = <<"[", "t", "r", "u", "e", "]">>
    /\ TreeOf(json_data_) = [k |-> "arr", elems |-> <<[k |-> "scalar", text |-> True]>>]

-----------------------------------------------------------------------------
(* Properties of the parser state *)

Current == heap[Deref(currently_working_on_)]

\* C15: a key is pushed onto keys_ only by a `:` processed while the node
\* worked on is an Object; a `:` in an array or at top level pushes nothing.
C15_KeysPushedInObjects ==
    [][/\ Len(keys_') > Len(keys_) => Processes(":") /\ Current.type_ = "OBJECT"
       /\ Processes(":") /\ Current.type_ # "OBJECT" => keys_' = keys_]_vars

\* a quoted string has just been closed where a value stands: after `[` or
\* `,` in an array, after `:` in an object
StringInValuePosition ==
    /\ seen.prev = "\"" /\ ~seen.quoted /\ ~seen.junk
    /\ \/ Current.type_ = "ARRAY" /\ seen.open # <<>> /\ last_symbol_ \in {"[", ","}
       \/ Current.type_ = "OBJECT" /\ keys_ # <<>> /\ last_symbol_ = ":"

\* C16: every quoted string completed in value position, "" included, is
\* attached to the node worked on as a String node when the next `,`, `}`
\* or `]` is processed.
C16_QuotedStringAttached ==
    [][\A c \in {",", "}", "]"} :
          Processes(c) /\ StringInValuePosition =>
              /\ Len(heap') = Len(heap) + 1
              /\ heap'[Len(heap')] = TextData(seen.string)
              /\ Current.type_ = "ARRAY" =>
                    ArrayOf(heap'[Deref(currently_working_on_)])
                        = Append(ArrayOf(Current), Len(heap'))
              /\ Current.type_ = "OBJECT" =>
                    Top(keys_) \in DOMAIN ObjectOf(heap'[Deref(currently_working_on_)])]_vars

\* C17: in every state of the parser at most one of quotes_open,
\* processing_number_ and processing_bool_ is set.
C17_OneFlagAtMost ==
    /\ ~(quotes_open /\ processing_number_)
    /\ ~(quotes_open /\ processing_bool_)
    /\ ~(processing_number_ /\ processing_bool_)

\* C18: in every state of the parser currently_working_on_ is not null and
\* brackets_ and working_on_ have the same depth; the exception of line 418
\* for an empty working_on_ is never thrown.
C18_StacksSameDepth ==
    /\ currently_working_on_ # nullptr
    /\ Len(brackets_) = Len(working_on_)
    /\ error # NoAncestor

\* C18's case: the inner of two open brackets has been closed
C18_Witness ==
    /\ pc = "parseBuffer" /\ seen.prev \in {"}", "]"}
    /\ Len(seen.open) = 1 /\ seen.nested
    /\ Len(brackets_) = 1 /\ Len(working_on_) = 1

\* C19: in every state of the parser the node worked on is an Object iff
\* the top of brackets_ is `{`, an Array iff it is `[`, and the top-level
\* array iff brackets_ is empty; InvalidContainer is never thrown.
C19_CurrentAgreesWithBrackets ==
    /\ Current.type_ \in {"OBJECT", "ARRAY"}
    /\ brackets_ # <<>> =>
          /\ Current.type_ = "OBJECT" <=> Top(brackets_) = "{"
          /\ Current.type_ = "ARRAY" <=> Top(brackets_) = "["
    /\ currently_working_on_ = Ptr(1) <=> brackets_ = <<>>
    /\ error # InvalidContainer

\* C19's case: an object closed inside an array, the array worked on again
C19_Witness ==
    /\ pc = "parseBuffer" /\ seen.prev = "}" /\ seen.nested
    /\ brackets_ = <<"[">> /\ Current.type_ = "ARRAY"
    /\ currently_working_on_ # Ptr(1)
    /\ Len(ArrayOf(Current)) = 1 /\ heap[ArrayOf(Current)[1]].type_ = "OBJECT"

-----------------------------------------------------------------------------
(* Objects that write a key more than once *)

DupValues == Elements \cup {Obj(<< <<<<"a">>, Str(<<>>)>> >>)}

\* two or three members, no three keys distinct
DupDocs ==
    {Obj(<< <<key, v>>, <<key, w>> >>) : key \in DocKeys, v \in DupValues, w \in DupValues}
    \cup {Obj(<< <<key, v>>, <<key, w>>, <<k3, Lit(<<"1">>)>> >>) :
             key \in DocKeys, k3 \in DocKeys, v \in DupValues, w \in DupValues}

InitDup == InitFile(DupDocs)

SpecDup == InitDup /\ [][NextDocs]_vars

KeysOf(v) == {v.members[j][1] : j \in 1 .. Len(v.members)}
Places(v, key) == {j \in 1 .. Len(v.members) : v.members[j][1] = key}
Repeated(v) == {key \in KeysOf(v) : Cardinality(Places(v, key)) > 1}
FirstOf(v, key) ==
    v.members[CHOOSE j \in Places(v, key) : \A l \in Places(v, key) : j <= l][2]

\* C20: of an object that writes a key more than once the constructor
\* makes, without an error, an object that holds under that key the value
\* written first; every later value of the key has consumed its pending key.
C20_FirstValueKept ==
    Ended =>
        /\ pc = "constructed" /\ json_data_.type_ = "OBJECT"
        /\ \A key \in Repeated(doc) :
              /\ key \in DOMAIN ObjectOf(json_data_)
              /\ TreeOf(heap[ObjectOf(json_data_)[key]]) = Content(FirstOf(doc, key))
              /\ \A j \in 1 .. Len(keys_) : keys_[j] # key

====
